---------------------------- MODULE Spec2Model ----------------------------
(***************************************************************************)
(* State-machine model of VectorStore<SIM_POLICY>                          *)
(* (include/ContextMemory/vector_store.h): the identifier mapping, its     *)
(* coupling to the HNSW index, the readers-writer lock and the three       *)
(* persisted artifacts.                                                    *)
(*                                                                         *)
(* The store object is one record, `store`, whose fields carry the names   *)
(* of the class members.  Every member function is a pure operator from    *)
(* the store (and the disk) before the call to the store after it plus the *)
(* error raised and the value returned; the actions apply these operators. *)
(* hnswlib itself is an external collaborator: its operations are modelled *)
(* by the Index* operators below.                                          *)
(***************************************************************************)
EXTENDS Integers, Sequences, FiniteSets, TLC

(***************************************************************************)
(* Bounds of the model.                                                    *)
(***************************************************************************)
\* next_label_ never exceeds MaxLabel (guard of the inserting actions)
MaxLabel == 3
\* user ids are 0 .. MaxUserId
MaxUserId == 2
\* a batch holds at most MaxBatch items
MaxBatch == 2
\* search_vectors is called with k in 1 .. MaxK
MaxK == 2
\* set_ef is called with ef in 1 .. MaxEf
MaxEf == 2
\* the constructor is called with max_elements in 0 .. MaxInitCap
MaxInitCap == 1
\* the threads that call the store concurrently
MaxThreads == 2

(***************************************************************************)
(* Program constants.  LABEL_RESERVE_INCREMENT_SIZE (1000 in the source)   *)
(* and the default ef (10 in the source, in the store's constructor and in *)
(* hnswlib) are scaled down so that the cases that depend on them - a      *)
(* batch that outgrows the reverse table, an index holding more nodes than *)
(* ef - are reached within MaxLabel inserts.                               *)
(***************************************************************************)
LABEL_RESERVE_INCREMENT_SIZE == 2
DefaultEf == 1
DefaultM == 16
DefaultEfConstruction == 200
\* the dimension the stores of the model are constructed with
Dim == 1

UserIds == 0 .. MaxUserId
\* what a read outside the reverse table may yield besides a user id
Garbage == 99
Coords == {1, 2}
\* vectors of the right length, and one that is too long
GoodVectors == {<<c>> : c \in Coords}
Vectors == GoodVectors \cup {<<2, 1>>}
Metrics == {"L2", "IP"}
Items == UserIds \X Vectors
Batches == UNION {[1 .. n -> Items] : n \in 0 .. MaxBatch}

\* a file is NoFile or <<content>>
NoFile == <<>>
File(content) == <<content>>
Content(file) == file[1]
EmptyFn == [x \in {} |-> 0]

Min(a, b) == IF a < b THEN a ELSE b
Max(a, b) == IF a > b THEN a ELSE b

(***************************************************************************)
(* Index Adapter: hnswlib::HierarchicalNSW<float> and its space.           *)
(* nodes maps each label present in the graph to its stored vector.        *)
(***************************************************************************)
IndexCount(idx) == Cardinality(DOMAIN idx.nodes)

\* HierarchicalNSW(space, max_elements, M, ef_construction, allow_replace_deleted)
IndexNew(cap, M, efc, arp) ==
  [nodes |-> EmptyFn, cap |-> cap, ef |-> DefaultEf, M |-> M, efc |-> efc,
   arp |-> arp]

\* resizeIndex(new_capacity): throws when the new capacity is below the
\* element count or when the reallocation fails (oom)
IndexResize(idx, newcap, oom) ==
  IF newcap < IndexCount(idx) \/ oom
  THEN [ok |-> FALSE, idx |-> idx]
  ELSE [ok |-> TRUE, idx |-> [idx EXCEPT !.cap = newcap]]

\* the dim floats addPoint reads at vec.data()
StoredVector(vec, dim) == SubSeq(vec, 1, dim)

\* addPoint(vec.data(), label): a label already in the graph has its vector
\* replaced; a new label needs a free slot and its link-list allocation
IndexAddPoint(idx, vec, dim, label, oom) ==
  IF label \in DOMAIN idx.nodes
  THEN [ok |-> TRUE,
        idx |-> [idx EXCEPT !.nodes = [idx.nodes EXCEPT ![label] = StoredVector(vec, dim)]]]
  ELSE IF IndexCount(idx) >= idx.cap \/ oom
  THEN [ok |-> FALSE, idx |-> idx]
  ELSE [ok |-> TRUE,
        idx |-> [idx EXCEPT !.nodes = (label :> StoredVector(vec, dim)) @@ idx.nodes]]

IndexSetEf(idx, ef) == [idx EXCEPT !.ef = ef]

RECURSIVE Dot(_, _)
Dot(a, b) ==
  IF a = <<>> \/ b = <<>> THEN 0 ELSE Head(a) * Head(b) + Dot(Tail(a), Tail(b))

RECURSIVE SqDist(_, _)
SqDist(a, b) ==
  IF a = <<>> \/ b = <<>> THEN 0
  ELSE (Head(a) - Head(b)) * (Head(a) - Head(b)) + SqDist(Tail(a), Tail(b))

\* L2Space: squared Euclidean distance; InnerProductSpace: 1 - <a, b>
Distance(metric, a, b) == IF metric = "L2" THEN SqDist(a, b) ELSE 1 - Dot(a, b)

\* the n smallest elements of a set of labels
RECURSIVE Lowest(_, _)
Lowest(S, n) ==
  IF n = 0 \/ S = {} THEN {}
  ELSE LET m == CHOOSE x \in S : \A y \in S : x <= y
       IN {m} \cup Lowest(S \ {m}, n - 1)

\* closest first, ties by label
RECURSIVE ClosestFirst(_, _, _, _, _)
ClosestFirst(S, nodes, metric, q, k) ==
  IF k = 0 \/ S = {} THEN <<>>
  ELSE LET Closer(x, y) ==
             \/ Distance(metric, q, nodes[x]) < Distance(metric, q, nodes[y])
             \/ /\ Distance(metric, q, nodes[x]) = Distance(metric, q, nodes[y])
                /\ x <= y
           m == CHOOSE x \in S : \A y \in S : Closer(x, y)
       IN <<m>> \o ClosestFirst(S \ {m}, nodes, metric, q, k - 1)

\* searchKnnCloserFirst(q, k): a deterministic function of the graph, the
\* query and ef.  The search keeps a candidate list of max(ef, k) entries
\* (vector_store.h 626-641: a higher ef gives a higher recall); here the
\* candidates are the max(ef, k) oldest nodes, and the result is the k
\* closest of them, closest first.
IndexKnn(idx, metric, q, dim, k) ==
  ClosestFirst(Lowest(DOMAIN idx.nodes, Max(idx.ef, k)), idx.nodes, metric,
               StoredVector(q, dim), k)


(***************************************************************************)
(* The store object.                                                       *)
(***************************************************************************)
\* VectorStore(index_path, dim, max_elements); metric is SIM_POLICY
NewStore(metric, dim, max_elements) ==
  [metric |-> metric,
   dim_ |-> dim,
   max_elements_ |-> max_elements,
   M_ |-> DefaultM,
   ef_construction_ |-> DefaultEfConstruction,
   ef_ |-> DefaultEf,
   allow_replace_deleted_ |-> TRUE,
   id_to_label_ |-> EmptyFn,
   label_to_id_ |-> <<>>,
   next_label_ |-> 0,
   current_resized_label_vec_size_ |-> LABEL_RESERVE_INCREMENT_SIZE,
   index_ |-> IndexNew(max_elements, DefaultM, DefaultEfConstruction, TRUE)]

\* std::vector<uint64_t>::resize(n): new elements are value-initialised
VecResize(v, n) ==
  IF n <= Len(v) THEN SubSeq(v, 1, n)
  ELSE v \o [i \in 1 .. (n - Len(v)) |-> 0]

\* label_to_id_[label] = user_id.  operator[] is unchecked: a label at or
\* past size() writes outside the vector's elements and leaves them as
\* they are.
VecStore(v, label, user_id) ==
  IF label < Len(v) THEN [v EXCEPT ![label + 1] = user_id] ELSE v

\* the values a read label_to_id_[label] can yield
VecRead(v, label) ==
  IF label < Len(v) THEN {v[label + 1]} ELSE UserIds \cup {Garbage}

Bound(s, user_id) == user_id \in DOMAIN s.id_to_label_

\* a growth that resizes the index and leaves max_elements_ as it was
GrowCapacity_MemberStale(s, oom) ==
  IF s.next_label_ >= s.max_elements_
  THEN LET new_capacity == s.max_elements_ * 2
           r == IndexResize(s.index_, new_capacity, oom)
       IN IF r.ok
          THEN [ok |-> TRUE, s |-> [s EXCEPT !.index_ = r.idx]]
          ELSE [ok |-> FALSE, s |-> s]
  ELSE [ok |-> TRUE, s |-> s]

\* the auto-resize block of add_vector and of the batch loop
GrowCapacity(s, oom) ==
  IF s.next_label_ >= s.max_elements_
  THEN LET new_capacity == s.max_elements_ * 2
           r == IndexResize(s.index_, new_capacity, oom)
       IN IF r.ok
          THEN [ok |-> TRUE,
                s |-> [s EXCEPT !.index_ = r.idx, !.max_elements_ = new_capacity]]
          ELSE [ok |-> FALSE, s |-> s]
  ELSE [ok |-> TRUE, s |-> s]

\* a commit that leaves next_label_ where it was
MappingCommit_KeepLabel(s, user_id) ==
  [s EXCEPT !.id_to_label_ = (user_id :> s.next_label_) @@ s.id_to_label_,
            !.label_to_id_ = VecStore(s.label_to_id_, s.next_label_, user_id)]

\* the three assignments that commit a mapping
MappingCommit(s, user_id) ==
  [s EXCEPT !.id_to_label_ = (user_id :> s.next_label_) @@ s.id_to_label_,
            !.label_to_id_ = VecStore(s.label_to_id_, s.next_label_, user_id),
            !.next_label_ = s.next_label_ + 1]

\* the rest of add_vector up to addPoint, after the two checks
AddVectorGrowInsert(s, vec, oomResize, oomInsert) ==
  LET g == GrowCapacity(s, oomResize)
  IN IF ~g.ok THEN [err |-> "ResizeFailed", s |-> s]
     ELSE LET s1 == IF g.s.next_label_ >= Len(g.s.label_to_id_)
                    THEN [g.s EXCEPT !.label_to_id_ =
                            VecResize(g.s.label_to_id_,
                                      g.s.next_label_ + LABEL_RESERVE_INCREMENT_SIZE)]
                    ELSE g.s
              a == IndexAddPoint(s1.index_, vec, s1.dim_, s1.next_label_, oomInsert)
          IN IF a.ok
             THEN [err |-> "none", s |-> [s1 EXCEPT !.index_ = a.idx]]
             ELSE [err |-> "InsertFailed", s |-> s1]

\* add_vector without the duplicate check
AddVectorInsert_NoDuplicateCheck(s, user_id, vec, oomResize, oomInsert) ==
  IF Len(vec) # s.dim_ THEN [err |-> "DimensionMismatch", s |-> s]
  ELSE AddVectorGrowInsert(s, vec, oomResize, oomInsert)

\* add_vector with the capacity growth ahead of the two checks
AddVectorInsert_GrowFirst(s, user_id, vec, oomResize, oomInsert) ==
  LET g == GrowCapacity(s, oomResize)
  IN IF ~g.ok THEN [err |-> "ResizeFailed", s |-> s]
     ELSE IF Len(vec) # s.dim_ THEN [err |-> "DimensionMismatch", s |-> g.s]
     ELSE IF Bound(s, user_id) THEN [err |-> "DuplicateIdentifier", s |-> g.s]
     ELSE AddVectorGrowInsert(s, vec, oomResize, oomInsert)

\* add_vector up to and including index_->addPoint: the checks, the
\* capacity growth, the growth of the reverse table, the insert
AddVectorInsert(s, user_id, vec, oomResize, oomInsert) ==
  IF Len(vec) # s.dim_ THEN [err |-> "DimensionMismatch", s |-> s]
  ELSE IF Bound(s, user_id) THEN [err |-> "DuplicateIdentifier", s |-> s]
  ELSE AddVectorGrowInsert(s, vec, oomResize, oomInsert)

AddVector(s, user_id, vec, oomResize, oomInsert) ==
  LET r == AddVectorInsert(s, user_id, vec, oomResize, oomInsert)
  IN IF r.err = "none"
     THEN [err |-> "none", s |-> MappingCommit(r.s, user_id)]
     ELSE r

\* try_add_vector_batch before the loop: the growth of the reverse table
BatchPreGrow(s, batch) ==
  IF s.next_label_ >= Len(s.label_to_id_)
  THEN [s EXCEPT !.label_to_id_ =
          VecResize(s.label_to_id_,
                    s.next_label_ + Len(batch) + LABEL_RESERVE_INCREMENT_SIZE)]
  ELSE s

\* an iteration whose validation looks at the id only
BatchItemInsert_ValidateIdOnly(s, item, validate, oomResize, oomInsert) ==
  LET user_id == item[1]
      vec == item[2]
      g == GrowCapacity(s, oomResize)
  IN IF ~g.ok THEN [what |-> "break", s |-> s]
     ELSE IF validate /\ Bound(g.s, user_id)
     THEN [what |-> "rejected", s |-> g.s]
     ELSE LET a == IndexAddPoint(g.s.index_, vec, g.s.dim_, g.s.next_label_, oomInsert)
          IN IF a.ok
             THEN [what |-> "inserted", s |-> [g.s EXCEPT !.index_ = a.idx]]
             ELSE [what |-> "failed", s |-> g.s]

\* one iteration of the batch loop up to and including addPoint.
\* an iteration that stores the doubled capacity before the resize
BatchItemInsert_CapacityFirst(s, item, validate, oomResize, oomInsert) ==
  LET user_id == item[1]
      vec == item[2]
      g == GrowCapacity(s, oomResize)
  IN IF ~g.ok THEN [what |-> "break", s |-> [s EXCEPT !.max_elements_ = @ * 2]]
     ELSE IF validate /\ (Bound(g.s, user_id) \/ Len(vec) # g.s.dim_)
     THEN [what |-> "rejected", s |-> g.s]
     ELSE LET a == IndexAddPoint(g.s.index_, vec, g.s.dim_, g.s.next_label_, oomInsert)
          IN IF a.ok
             THEN [what |-> "inserted", s |-> [g.s EXCEPT !.index_ = a.idx]]
             ELSE [what |-> "failed", s |-> g.s]

\* an iteration that commits the mapping before addPoint has succeeded
BatchItemInsert_CommitFirst(s, item, validate, oomResize, oomInsert) ==
  LET user_id == item[1]
      vec == item[2]
      g == GrowCapacity(s, oomResize)
  IN IF ~g.ok THEN [what |-> "break", s |-> s]
     ELSE IF validate /\ (Bound(g.s, user_id) \/ Len(vec) # g.s.dim_)
     THEN [what |-> "rejected", s |-> g.s]
     ELSE LET a == IndexAddPoint(g.s.index_, vec, g.s.dim_, g.s.next_label_, oomInsert)
          IN IF a.ok
             THEN [what |-> "inserted", s |-> [g.s EXCEPT !.index_ = a.idx]]
             ELSE [what |-> "failed", s |-> MappingCommit(g.s, user_id)]

\* what: "break" (the resize threw), "rejected" (validation: continue),
\* "failed" (addPoint threw: caught, continue), "inserted" (the commit
\* follows)
BatchItemInsert(s, item, validate, oomResize, oomInsert) ==
  LET user_id == item[1]
      vec == item[2]
      g == GrowCapacity(s, oomResize)
  IN IF ~g.ok THEN [what |-> "break", s |-> s]
     ELSE IF validate /\ (Bound(g.s, user_id) \/ Len(vec) # g.s.dim_)
     THEN [what |-> "rejected", s |-> g.s]
     ELSE LET a == IndexAddPoint(g.s.index_, vec, g.s.dim_, g.s.next_label_, oomInsert)
          IN IF a.ok
             THEN [what |-> "inserted", s |-> [g.s EXCEPT !.index_ = a.idx]]
             ELSE [what |-> "failed", s |-> g.s]

\* one iteration of the batch loop; st = [s, added, stopped, threw], where
\* threw records whether an adapter call of the batch has thrown
BatchItem(st, item, validate, oomResize, oomInsert) ==
  IF st.stopped THEN st
  ELSE LET r == BatchItemInsert(st.s, item, validate, oomResize, oomInsert)
       IN IF r.what = "break" THEN [st EXCEPT !.stopped = TRUE, !.threw = TRUE]
          ELSE IF r.what = "rejected" THEN [st EXCEPT !.s = r.s]
          ELSE IF r.what = "failed" THEN [st EXCEPT !.s = r.s, !.threw = TRUE]
          ELSE [st EXCEPT !.s = MappingCommit(r.s, item[1]),
                          !.added = Append(st.added, item[1])]

\* the loop over items i .. Len(batch); the adapter call of kind failKind
\* ("resize" or "insert") is out of memory at item failAt (0: at none)
RECURSIVE BatchLoop(_, _, _, _, _, _)
BatchLoop(st, batch, i, validate, failAt, failKind) ==
  IF i > Len(batch) THEN st
  ELSE BatchLoop(BatchItem(st, batch[i], validate,
                           failAt = i /\ failKind = "resize",
                           failAt = i /\ failKind = "insert"),
                 batch, i + 1, validate, failAt, failKind)

\* a batch call that goes on to the growth of the reverse table and to the
\* loop whatever the batch holds
TryAddVectorBatch_NoEmptyCheck(s, batch, validate, failAt, failKind) ==
  LET st == BatchLoop([s |-> BatchPreGrow(s, batch), added |-> <<>>,
                       stopped |-> FALSE, threw |-> FALSE],
                      batch, 1, validate, failAt, failKind)
  IN [s |-> st.s, ret |-> st.added, threw |-> st.threw]

TryAddVectorBatch(s, batch, validate, failAt, failKind) ==
  IF batch = <<>> THEN [s |-> s, ret |-> <<>>, threw |-> FALSE]
  ELSE LET st == BatchLoop([s |-> BatchPreGrow(s, batch), added |-> <<>>,
                            stopped |-> FALSE, threw |-> FALSE],
                           batch, 1, validate, failAt, failKind)
       IN [s |-> st.s, ret |-> st.added, threw |-> st.threw]

\* search_vectors up to the translation: the dimension check and the
\* labels the index returns, closest first
SearchVectors(s, query, k) ==
  IF Len(query) # s.dim_ THEN [err |-> "DimensionMismatch", labels |-> <<>>]
  ELSE [err |-> "none", labels |-> IndexKnn(s.index_, s.metric, query, s.dim_, k)]

\* the user ids search_vectors can return for the labels the index gave:
\* res.user_id = label_to_id_[result.second], in the order of the labels
Translations(s, labels) ==
  {r \in [1 .. Len(labels) -> UserIds \cup {Garbage}] :
     \A i \in 1 .. Len(labels) : r[i] \in VecRead(s.label_to_id_, labels[i])}

\* a cleanMappings that leaves next_label_ where it was
CleanMappings_KeepNextLabel(s) ==
  [s EXCEPT !.label_to_id_ = <<>>, !.id_to_label_ = EmptyFn]

\* cleanMappings
CleanMappings(s) ==
  [s EXCEPT !.label_to_id_ = <<>>, !.id_to_label_ = EmptyFn, !.next_label_ = 0]

\* set_ef
SetEf(s, ef) == [s EXCEPT !.ef_ = ef, !.index_ = IndexSetEf(s.index_, ef)]


(***************************************************************************)
(* Persistence.  The disk holds the three artifacts of one base path; each *)
(* is NoFile or its content.                                               *)
(***************************************************************************)
\* index_->saveIndex(path + ".hnsw"): the graph, its capacity and its
\* construction parameters; the query-time ef is not part of the file
IndexSave(idx) == [nodes |-> idx.nodes, cap |-> idx.cap, M |-> idx.M, efc |-> idx.efc]

\* index_->loadIndex(path, space, max_elements) on a freshly built index:
\* the capacity is the one asked for unless the file holds more elements,
\* and ef is set to hnswlib's default
IndexLoad(idx, file, max_elements) ==
  [idx EXCEPT !.nodes = file.nodes,
              !.cap = IF max_elements < Cardinality(DOMAIN file.nodes)
                      THEN file.cap ELSE max_elements,
              !.M = file.M,
              !.efc = file.efc,
              !.ef = DefaultEf]

\* the .hnsw.map contents save_mappings_unlocked can write: count, then
\* count entries read at label_to_id_.data(), then one pair per entry of
\* id_to_label_.  Entries read past size() are whatever lies there.
MapFiles(s) ==
  LET n == s.next_label_
  IN {[count |-> n, rev |-> r, fwd |-> s.id_to_label_] :
        r \in {x \in [1 .. n -> UserIds \cup {Garbage}] :
                 \A i \in 1 .. n : x[i] \in VecRead(s.label_to_id_, i - 1)}}

\* the pair load_mappings stores for a read that found no pair in the file
\* (user_id and label are uninitialised locals): none that differs from an
\* earlier one, or some pair
StalePairs == {EmptyFn} \cup
  {(u :> l) : u \in UserIds \cup {Garbage}, l \in (0 .. MaxLabel) \cup {Garbage}}

\* a load_mappings without the check of the count
LoadMappings_NoEmptyCheck(s, file, stale) ==
  [err |-> "none",
   s |-> [s EXCEPT !.label_to_id_ = file.rev,
                   !.id_to_label_ =
                      IF Cardinality(DOMAIN file.fwd) < file.count
                      THEN stale @@ file.fwd ELSE file.fwd,
                   !.next_label_ = file.count]]

\* load_mappings once the file is open
LoadMappings(s, file, stale) ==
  IF file.count = 0 THEN [err |-> "PersistenceError", s |-> s]
  ELSE [err |-> "none",
        s |-> [s EXCEPT !.label_to_id_ = file.rev,
                        !.id_to_label_ =
                           IF Cardinality(DOMAIN file.fwd) < file.count
                           THEN stale @@ file.fwd ELSE file.fwd,
                        !.next_label_ = file.count]]

\* The 4-byte word that follows ef_ in the object: allow_replace_deleted_
\* and three padding bytes.
AfterEf(s) == <<"allow_replace_deleted_", s.allow_replace_deleted_>>

\* save_metadata_unlocked: each int field is written with
\* sizeof(uint64_t), i.e. together with the 4 bytes that follow it
MetaFile(s) ==
  [dim |-> <<s.dim_, s.max_elements_>>,
   max_elements |-> <<s.max_elements_, s.M_>>,
   M |-> <<s.M_, s.ef_construction_>>,
   ef_construction |-> <<s.ef_construction_, s.ef_>>,
   ef |-> <<s.ef_, AfterEf(s)>>,
   allow_replace_deleted |-> s.allow_replace_deleted_,
   reserved |-> s.current_resized_label_vec_size_]

\* reads of sizeof(int) bytes each over a file of 8-byte fields
LoadIndexMetadata_IntReads(s, file) ==
  [s EXCEPT !.dim_ = file.dim[1], !.max_elements_ = file.dim[2],
            !.M_ = file.max_elements[1], !.ef_construction_ = file.max_elements[2],
            !.ef_ = file.M[1],
            !.allow_replace_deleted_ = file.allow_replace_deleted,
            !.current_resized_label_vec_size_ = file.reserved]

\* load_index_metadata once the file is open: each read of
\* sizeof(uint64_t) bytes fills an int field and the 4 bytes after it
LoadIndexMetadata(s, file) ==
  LET s1 == [s EXCEPT !.dim_ = file.dim[1], !.max_elements_ = file.dim[2]]
      s2 == [s1 EXCEPT !.max_elements_ = file.max_elements[1], !.M_ = file.max_elements[2]]
      s3 == [s2 EXCEPT !.M_ = file.M[1], !.ef_construction_ = file.M[2]]
      s4 == [s3 EXCEPT !.ef_construction_ = file.ef_construction[1],
                       !.ef_ = file.ef_construction[2]]
      s5 == [s4 EXCEPT !.ef_ = file.ef[1], !.allow_replace_deleted_ = file.ef[2][2]]
  IN [s5 EXCEPT !.allow_replace_deleted_ = file.allow_replace_deleted,
                !.current_resized_label_vec_size_ = file.reserved]

\* the members of a store under construction by the loading constructor
\* before load_index_metadata has run: next_label_ has an initialiser, the
\* containers are empty, the scalars are set by the metadata reads
BlankStore(metric) ==
  [NewStore(metric, 0, 0) EXCEPT !.current_resized_label_vec_size_ = 0]

\* a constructor that takes a missing mapping file for an empty mapping
LoadConstructor_MapOptional(metric, d, stale) ==
  IF d.meta = NoFile THEN [err |-> "PersistenceError", step |-> "meta"]
  ELSE LET s1 == LoadIndexMetadata(BlankStore(metric), Content(d.meta))
           s2 == [s1 EXCEPT !.index_ = IndexNew(s1.max_elements_, s1.M_,
                                                 s1.ef_construction_,
                                                 s1.allow_replace_deleted_)]
       IN IF d.hnsw = NoFile THEN [err |-> "PersistenceError", step |-> "index"]
          ELSE LET s3 == [s2 EXCEPT !.index_ =
                                      IndexLoad(s2.index_, Content(d.hnsw), s2.max_elements_)]
               IN IF d.map = NoFile THEN [err |-> "none", step |-> "done", s |-> s3]
                  ELSE LET r == LoadMappings(s3, Content(d.map), stale)
                       IN IF r.err = "none"
                          THEN [err |-> "none", step |-> "done", s |-> r.s]
                          ELSE [err |-> r.err, step |-> "map"]

\* a constructor that opens the mapping file before anything else
LoadConstructor_MapFirst(metric, d, stale) ==
  IF d.map = NoFile THEN [err |-> "PersistenceError", step |-> "map"]
  ELSE IF d.meta = NoFile THEN [err |-> "PersistenceError", step |-> "meta"]
  ELSE LET s1 == LoadIndexMetadata(BlankStore(metric), Content(d.meta))
           s2 == [s1 EXCEPT !.index_ = IndexNew(s1.max_elements_, s1.M_,
                                                 s1.ef_construction_,
                                                 s1.allow_replace_deleted_)]
       IN IF d.hnsw = NoFile THEN [err |-> "PersistenceError", step |-> "index"]
          ELSE LET s3 == [s2 EXCEPT !.index_ =
                                      IndexLoad(s2.index_, Content(d.hnsw), s2.max_elements_)]
                   r == LoadMappings(s3, Content(d.map), stale)
               IN IF r.err = "none"
                  THEN [err |-> "none", step |-> "done", s |-> r.s]
                  ELSE [err |-> r.err, step |-> "map"]

\* VectorStore(index_path): metadata, then the index, then the mapping
LoadConstructor(metric, d, stale) ==
  IF d.meta = NoFile THEN [err |-> "PersistenceError", step |-> "meta"]
  ELSE LET s1 == LoadIndexMetadata(BlankStore(metric), Content(d.meta))
           s2 == [s1 EXCEPT !.index_ = IndexNew(s1.max_elements_, s1.M_,
                                                 s1.ef_construction_,
                                                 s1.allow_replace_deleted_)]
       IN IF d.hnsw = NoFile THEN [err |-> "PersistenceError", step |-> "index"]
          ELSE LET s3 == [s2 EXCEPT !.index_ =
                                      IndexLoad(s2.index_, Content(d.hnsw), s2.max_elements_)]
               IN IF d.map = NoFile THEN [err |-> "PersistenceError", step |-> "map"]
                  ELSE LET r == LoadMappings(s3, Content(d.map), stale)
                       IN IF r.err = "none"
                          THEN [err |-> "none", step |-> "done", s |-> r.s]
                          ELSE [err |-> r.err, step |-> "map"]


(***************************************************************************)
(* State.                                                                  *)
(*   store  the live VectorStore object                                    *)
(*   disk   the artifacts <base>.hnsw, <base>.hnsw.map, <base>.hnsw.meta   *)
(*   saved  history: the store as it was at the latest save_index (or      *)
(*          save_mappings), and whether the three artifacts on disk are    *)
(*          the ones one save_index wrote                                  *)
(*   accepted  history: the number of vectors the live store has accepted  *)
(*          (add_vector returned, or the id is in a batch's result) since  *)
(*          its mappings were last empty                                   *)
(*   op, err, ret  the call that has just completed ("idle": none, the     *)
(*          caller has taken the result), the error it raised ("none": it  *)
(*          returned normally) and the value it returned                   *)
(* and, for the threads that call the store concurrently,                  *)
(*   mutex  store_mutex_: the thread that holds it exclusively (NoThread:  *)
(*          none) and the threads that hold it shared                      *)
(*   pc     each thread's position inside the call it is making            *)
(*   call   each thread's call: the member function, its arguments and     *)
(*          its locals                                                     *)
(*   inserted_as  history: the user id each label was last inserted under  *)
(*          by a thread                                                    *)
(***************************************************************************)
VARIABLES store, disk, saved, accepted, op, err, ret, mutex, pc, call, inserted_as

vars == <<store, disk, saved, accepted, op, err, ret, mutex, pc, call, inserted_as>>

Threads == 1 .. MaxThreads
NoThread == 0

\* a thread's call record before it has made a call
NoCall ==
  [name |-> "none", user_id |-> 0, vec |-> <<>>, batch |-> <<>>, validate |-> TRUE,
   i |-> 0, added |-> <<>>, k |-> 0, labels |-> <<>>, ef |-> 0]

\* the variables of the threads
conc == <<mutex, pc, call, inserted_as>>

InitCaps == 0 .. MaxInitCap
FailKinds == {"none", "resize", "insert"}

Init ==
  /\ store \in {NewStore("L2", Dim, c) : c \in InitCaps}
  /\ disk = [hnsw |-> NoFile, map |-> NoFile, meta |-> NoFile]
  /\ saved = [s |-> NoFile, whole |-> FALSE]
  /\ accepted = 0
  /\ op = "idle"
  /\ err = "none"
  /\ ret = <<>>
  /\ mutex = [writer |-> NoThread, readers |-> {}]
  /\ pc = [t \in Threads |-> "idle"]
  /\ call = [t \in Threads |-> NoCall]
  /\ inserted_as = EmptyFn

\* the call `name`, made by the one thread of a sequential program,
\* completes, raising e or returning r
Call(name, e, r) == op' = name /\ err' = e /\ ret' = r /\ UNCHANGED conc

\* no call is in progress: the store is called from one thread
Idle == op = "idle"

\* the caller takes the result
returned ==
  /\ op # "idle"
  /\ op' = "idle" /\ err' = "none" /\ ret' = <<>>
  /\ UNCHANGED <<store, disk, saved, accepted, conc>>

add_vector_call(user_id, vec, fail) ==
  LET r == AddVector(store, user_id, vec, fail = "resize", fail = "insert")
  IN /\ r.s.next_label_ <= MaxLabel
     /\ store' = r.s
     /\ accepted' = IF r.err = "none" THEN accepted + 1 ELSE accepted
     /\ Call("add_vector", r.err, <<>>)
     /\ UNCHANGED <<disk, saved>>

add_vector_in(ids, vecs) ==
  /\ Idle
  /\ \E user_id \in ids, vec \in vecs, fail \in FailKinds :
       add_vector_call(user_id, vec, fail)

add_vector == add_vector_in(UserIds, Vectors)

try_add_vector_batch_call(batch, validate, failAt, failKind) ==
  LET r == TryAddVectorBatch(store, batch, validate, failAt, failKind)
  IN /\ r.s.next_label_ <= MaxLabel
     /\ store' = r.s
     /\ accepted' = accepted + Len(r.ret)
     /\ Call("try_add_vector_batch", "none", r.ret)
     /\ UNCHANGED <<disk, saved>>

\* the places where an adapter call of a batch can be out of memory
BatchFails(batch) ==
  {<<0, "none">>} \cup ((1 .. Len(batch)) \X {"resize", "insert"})

try_add_vector_batch_in(batches, flags) ==
  /\ Idle
  /\ \E batch \in batches, validate \in flags :
       \E f \in BatchFails(batch) :
         try_add_vector_batch_call(batch, validate, f[1], f[2])

try_add_vector_batch == try_add_vector_batch_in(Batches, BOOLEAN)

search_vectors_call(query, k) ==
  LET r == SearchVectors(store, query, k)
  IN /\ \E ids \in Translations(store, r.labels) :
          Call("search_vectors", r.err, ids)
     /\ UNCHANGED <<store, disk, saved, accepted>>

search_vectors ==
  /\ Idle
  /\ \E query \in Vectors, k \in 1 .. MaxK : search_vectors_call(query, k)

cleanMappings ==
  /\ Idle
  /\ store' = CleanMappings(store)
  /\ accepted' = 0
  /\ Call("cleanMappings", "none", <<>>)
  /\ UNCHANGED <<disk, saved>>

set_ef_call(ef) ==
  /\ store' = SetEf(store, ef)
  /\ Call("set_ef", "none", <<>>)
  /\ UNCHANGED <<disk, saved, accepted>>

set_ef == Idle /\ \E ef \in 1 .. MaxEf : set_ef_call(ef)

\* save_index: the index, then the mapping, then the metadata
save_index ==
  /\ Idle
  /\ \E m \in MapFiles(store) :
       disk' = [hnsw |-> File(IndexSave(store.index_)), map |-> File(m),
                meta |-> File(MetaFile(store))]
  /\ saved' = [s |-> File(store), whole |-> TRUE]
  /\ Call("save_index", "none", <<>>)
  /\ UNCHANGED <<store, accepted>>

(***************************************************************************)
(* Spec: the operations that work on the store in memory.                  *)
(***************************************************************************)
Next ==
  \/ add_vector
  \/ try_add_vector_batch
  \/ search_vectors
  \/ cleanMappings
  \/ set_ef
  \/ returned

Spec == Init /\ [][Next]_vars

(***************************************************************************)
(* SpecValidated: a fresh store under add_vector, try_add_vector_batch     *)
(* with validate = true, set_ef and save_index.  The vectors are one of    *)
(* the right length and one of the wrong length.                           *)
(***************************************************************************)
PlainVectors == {<<1>>, <<2, 1>>}
PlainBatches == UNION {[1 .. n -> UserIds \X PlainVectors] : n \in 0 .. MaxBatch}

add_vector_plain == add_vector_in(UserIds, PlainVectors)
try_add_vector_batch_validated == try_add_vector_batch_in(PlainBatches, {TRUE})

NextValidated ==
  \/ add_vector_plain
  \/ try_add_vector_batch_validated
  \/ set_ef
  \/ save_index
  \/ returned

SpecValidated == Init /\ [][NextValidated]_vars


(***************************************************************************)
(* SpecRoundTrip: vectors are accepted through add_vector and validated    *)
(* batches, set_ef tunes the search, save_index writes the store (once in  *)
(* a behaviour) and the loading constructor builds the store anew from     *)
(* what was written.                                                       *)
(***************************************************************************)
\* VectorStore<SIM_POLICY>(index_path): the store variable becomes the
\* store the constructor built; a constructor that throws builds none
load_constructor_call(metric, stale) ==
  LET r == LoadConstructor(metric, disk, stale)
  IN /\ IF r.err = "none" THEN store' = r.s ELSE UNCHANGED store
     /\ accepted' = IF r.err = "none" THEN r.s.next_label_ ELSE accepted
     /\ Call("VectorStore(index_path)", r.err, <<r.step>>)
     /\ UNCHANGED <<disk, saved>>

\* the stale pairs that matter to a load from disk d: none when the
\* mapping file holds a pair for every read
StalePairsFor(d) ==
  IF d.map # NoFile /\ Cardinality(DOMAIN Content(d.map).fwd) < Content(d.map).count
  THEN StalePairs ELSE {EmptyFn}

\* the loading constructor of the class the store was saved from
load_constructor_same ==
  /\ Idle
  /\ \E stale \in StalePairsFor(disk) : load_constructor_call(store.metric, stale)

\* the first save_index of a behaviour
save_index_first == saved.s = NoFile /\ save_index

add_vector_good == add_vector_in(UserIds, GoodVectors)

GoodBatches == UNION {[1 .. n -> UserIds \X GoodVectors] : n \in 1 .. MaxBatch}

try_add_vector_batch_good ==
  /\ Idle
  /\ \E batch \in GoodBatches : try_add_vector_batch_call(batch, TRUE, 0, "none")

NextRoundTrip ==
  \/ add_vector_good
  \/ try_add_vector_batch_good
  \/ set_ef
  \/ save_index_first
  \/ load_constructor_same
  \/ returned

SpecRoundTrip == Init /\ [][NextRoundTrip]_vars


(***************************************************************************)
(* Threads.  Each public member function takes store_mutex_ in its first   *)
(* statement and releases it when it returns or throws.  A call is the     *)
(* steps: begin (the thread arrives at the lock), lock, the steps of the   *)
(* body, unlock.  What the body does to the store is the      *)
(* operators of the sequential model.                                      *)
(***************************************************************************)
\* the member functions that take std::unique_lock
Writers ==
  {"add_vector", "try_add_vector_batch", "save_index", "save_mappings",
   "save_metadata", "load_mappings", "load_index_metadata", "cleanMappings",
   "set_ef"}

\* the member functions that take std::shared_lock; "get" is any of the
\* getters
Readers == {"search_vectors", "get"}

\* std::unique_lock lock(store_mutex_) does not block
CanLockExclusive_IgnoreReaders(m) == m.writer = NoThread

\* a lock that a second writer can take
CanLockExclusive_IgnoreWriter(m) == m.readers = {}

CanLockExclusive(m) == m.writer = NoThread /\ m.readers = {}

\* std::shared_lock lock(store_mutex_) does not block
CanLockShared(m) == m.writer = NoThread

\* the vectors and batches the threads pass
ThreadVectors == {<<1>>, <<2, 1>>}
ThreadBatches ==
  {<<>>, <<<<1, <<1>>>>>>, <<<<0, <<1>>>>, <<1, <<1>>>>>>, <<<<1, <<1>>>>, <<1, <<1>>>>>>}

\* the arguments of a call of member function name, with user ids in ids
\* and validate in flags
Arguments(name, ids, flags) ==
  IF name = "add_vector"
  THEN {[NoCall EXCEPT !.name = name, !.user_id = u, !.vec = v] :
          u \in ids, v \in ThreadVectors}
  ELSE IF name = "try_add_vector_batch"
  THEN {[NoCall EXCEPT !.name = name, !.batch = b, !.validate = f] :
          b \in {x \in ThreadBatches : \A i \in 1 .. Len(x) : x[i][1] \in ids},
          f \in flags}
  ELSE IF name = "search_vectors"
  THEN {[NoCall EXCEPT !.name = name, !.vec = v, !.k = k] :
          v \in ThreadVectors, k \in 1 .. MaxK}
  ELSE IF name = "set_ef"
  THEN {[NoCall EXCEPT !.name = name, !.ef = e] : e \in 1 .. MaxEf}
  ELSE {[NoCall EXCEPT !.name = name]}

\* the first statement after the lock
FirstPc(name) ==
  IF name = "add_vector" THEN "add_vector_insert"
  ELSE IF name = "try_add_vector_batch" THEN "batch_begin"
  ELSE IF name = "search_vectors" THEN "search_knn"
  ELSE IF name = "get" THEN "get_read"
  ELSE "writer_body"

Goto(t, where) == pc' = [pc EXCEPT ![t] = where]

seq == <<disk, saved, accepted, op, err, ret>>

\* thread t calls a member function that takes the lock exclusively
\* (shared), and is at the lock's constructor
begin_writer(t) ==
  /\ pc[t] = "idle"
  /\ Goto(t, "lock_exclusive")
  /\ UNCHANGED <<store, seq, mutex, call, inserted_as>>

begin_reader(t) ==
  /\ pc[t] = "idle"
  /\ Goto(t, "lock_shared")
  /\ UNCHANGED <<store, seq, mutex, call, inserted_as>>

\* std::unique_lock lock(store_mutex_) in a call of one of names with user
\* ids in ids and validate in flags
lock_exclusive(t, names, ids, flags) ==
  /\ pc[t] = "lock_exclusive"
  /\ CanLockExclusive(mutex)
  /\ mutex' = [mutex EXCEPT !.writer = t]
  /\ \E name \in names \cap Writers :
       /\ \E c \in Arguments(name, ids, flags) : call' = [call EXCEPT ![t] = c]
       /\ Goto(t, FirstPc(name))
  /\ UNCHANGED <<store, seq, inserted_as>>

\* std::shared_lock lock(store_mutex_) in a call of one of names with user
\* ids in ids and validate in flags
lock_shared(t, names, ids, flags) ==
  /\ pc[t] = "lock_shared"
  /\ CanLockShared(mutex)
  /\ mutex' = [mutex EXCEPT !.readers = @ \cup {t}]
  /\ \E name \in names \cap Readers :
       /\ \E c \in Arguments(name, ids, flags) : call' = [call EXCEPT ![t] = c]
       /\ Goto(t, FirstPc(name))
  /\ UNCHANGED <<store, seq, inserted_as>>

\* a return that leaves the mutex locked
unlock_KeepsLock(t) ==
  /\ pc[t] = "unlock"
  /\ call' = [call EXCEPT ![t] = NoCall]
  /\ Goto(t, "idle")
  /\ UNCHANGED <<store, seq, mutex, inserted_as>>

\* the lock's destructor, on return and on throw
unlock(t) ==
  /\ pc[t] = "unlock"
  /\ mutex' = [writer |-> IF mutex.writer = t THEN NoThread ELSE mutex.writer,
               readers |-> mutex.readers \ {t}]
  /\ call' = [call EXCEPT ![t] = NoCall]
  /\ Goto(t, "idle")
  /\ UNCHANGED <<store, seq, inserted_as>>

\* add_vector from the checks to index_->addPoint
add_vector_insert(t) ==
  /\ pc[t] = "add_vector_insert"
  /\ \E fail \in FailKinds :
       LET r == AddVectorInsert(store, call[t].user_id, call[t].vec,
                                fail = "resize", fail = "insert")
       IN /\ r.s.next_label_ < MaxLabel \/ r.err # "none"
          /\ store' = r.s
          /\ inserted_as' = IF r.err = "none"
                            THEN (store.next_label_ :> call[t].user_id) @@ inserted_as
                            ELSE inserted_as
          /\ Goto(t, IF r.err = "none" THEN "add_vector_commit" ELSE "unlock")
  /\ UNCHANGED <<seq, mutex, call>>

\* add_vector: the three assignments after addPoint
add_vector_commit(t) ==
  /\ pc[t] = "add_vector_commit"
  /\ store' = MappingCommit(store, call[t].user_id)
  /\ Goto(t, "unlock")
  /\ UNCHANGED <<seq, mutex, call, inserted_as>>

\* try_add_vector_batch before the loop
batch_begin(t) ==
  /\ pc[t] = "batch_begin"
  /\ IF call[t].batch = <<>>
     THEN Goto(t, "unlock") /\ UNCHANGED <<store, call>>
     ELSE /\ store' = BatchPreGrow(store, call[t].batch)
          /\ call' = [call EXCEPT ![t].i = 1]
          /\ Goto(t, "batch_item")
  /\ UNCHANGED <<seq, mutex, inserted_as>>

\* one iteration of the loop up to addPoint, or the loop's end
batch_item(t) ==
  /\ pc[t] = "batch_item"
  /\ IF call[t].i > Len(call[t].batch)
     THEN Goto(t, "unlock") /\ UNCHANGED <<store, call, inserted_as>>
     ELSE \E fail \in FailKinds :
            LET item == call[t].batch[call[t].i]
                r == BatchItemInsert(store, item, call[t].validate,
                                     fail = "resize", fail = "insert")
            IN /\ r.s.next_label_ < MaxLabel \/ r.what # "inserted"
               /\ store' = r.s
               /\ inserted_as' = IF r.what = "inserted"
                                 THEN (store.next_label_ :> item[1]) @@ inserted_as
                                 ELSE inserted_as
               /\ IF r.what = "break" THEN Goto(t, "unlock") /\ UNCHANGED call
                  ELSE IF r.what = "inserted"
                  THEN Goto(t, "batch_commit") /\ UNCHANGED call
                  ELSE /\ call' = [call EXCEPT ![t].i = @ + 1]
                       /\ UNCHANGED pc
  /\ UNCHANGED <<seq, mutex>>

\* the commit of the item just inserted
batch_commit(t) ==
  /\ pc[t] = "batch_commit"
  /\ LET user_id == call[t].batch[call[t].i][1]
     IN /\ store' = MappingCommit(store, user_id)
        /\ call' = [call EXCEPT ![t].i = @ + 1, ![t].added = Append(@, user_id)]
  /\ Goto(t, "batch_item")
  /\ UNCHANGED <<seq, mutex, inserted_as>>

\* search_vectors: the dimension check and searchKnnCloserFirst
search_knn(t) ==
  /\ pc[t] = "search_knn"
  /\ LET r == SearchVectors(store, call[t].vec, call[t].k)
     IN /\ call' = [call EXCEPT ![t].labels = r.labels]
        /\ Goto(t, IF r.err = "none" THEN "search_translate" ELSE "unlock")
  /\ UNCHANGED <<store, seq, mutex, inserted_as>>

\* search_vectors: the loop that reads label_to_id_
search_translate(t) ==
  /\ pc[t] = "search_translate"
  /\ \E ids \in Translations(store, call[t].labels) :
       call' = [call EXCEPT ![t].added = ids]
  /\ Goto(t, "unlock")
  /\ UNCHANGED <<store, seq, mutex, inserted_as>>

\* a getter's return statement
get_read(t) ==
  /\ pc[t] = "get_read"
  /\ Goto(t, "unlock")
  /\ UNCHANGED <<store, seq, mutex, call, inserted_as>>

\* the body of save_index, save_mappings, save_metadata, load_mappings,
\* load_index_metadata, cleanMappings or set_ef
writer_body(t) ==
  /\ pc[t] = "writer_body"
  /\ LET name == call[t].name
     IN IF name = "save_index"
        THEN /\ \E m \in MapFiles(store) :
                  disk' = [hnsw |-> File(IndexSave(store.index_)), map |-> File(m),
                           meta |-> File(MetaFile(store))]
             /\ UNCHANGED store
        ELSE IF name = "save_mappings"
        THEN /\ \E m \in MapFiles(store) : disk' = [disk EXCEPT !.map = File(m)]
             /\ UNCHANGED store
        ELSE IF name = "save_metadata"
        THEN /\ disk' = [disk EXCEPT !.meta = File(MetaFile(store))]
             /\ UNCHANGED store
        ELSE IF name = "load_mappings"
        THEN /\ IF disk.map = NoFile THEN UNCHANGED store
                ELSE \E stale \in StalePairsFor(disk) :
                       store' = LoadMappings(store, Content(disk.map), stale).s
             /\ UNCHANGED disk
        ELSE IF name = "load_index_metadata"
        THEN /\ IF disk.meta = NoFile THEN UNCHANGED store
                ELSE store' = LoadIndexMetadata(store, Content(disk.meta))
             /\ UNCHANGED disk
        ELSE IF name = "cleanMappings"
        THEN store' = CleanMappings(store) /\ UNCHANGED disk
        ELSE store' = SetEf(store, call[t].ef) /\ UNCHANGED disk
  /\ Goto(t, "unlock")
  /\ UNCHANGED <<saved, accepted, op, err, ret, mutex, call, inserted_as>>

(***************************************************************************)
(* SpecSearchers: threads that call add_vector, try_add_vector_batch and   *)
(* search_vectors.                                                         *)
(***************************************************************************)
Searchers == {"add_vector", "try_add_vector_batch", "search_vectors"}

lock_exclusive_searchers(t) == lock_exclusive(t, Searchers, UserIds, BOOLEAN)
lock_shared_searchers(t) == lock_shared(t, Searchers, UserIds, BOOLEAN)

NextSearchers ==
  \E t \in Threads :
    \/ begin_writer(t)
    \/ begin_reader(t)
    \/ lock_exclusive_searchers(t)
    \/ lock_shared_searchers(t)
    \/ add_vector_insert(t)
    \/ add_vector_commit(t)
    \/ batch_begin(t)
    \/ batch_item(t)
    \/ batch_commit(t)
    \/ search_knn(t)
    \/ search_translate(t)
    \/ unlock(t)

SpecSearchers == Init /\ [][NextSearchers]_vars

(***************************************************************************)
(* SpecThreads: threads that call the member functions that take the lock, *)
(* all with user id 1 and validate = true.                                 *)
(***************************************************************************)
lock_exclusive_any(t) == lock_exclusive(t, Writers, {1}, {TRUE})
lock_shared_any(t) == lock_shared(t, Readers, {1}, {TRUE})

NextThreads ==
  \E t \in Threads :
    \/ begin_writer(t)
    \/ begin_reader(t)
    \/ lock_exclusive_any(t)
    \/ lock_shared_any(t)
    \/ add_vector_insert(t)
    \/ add_vector_commit(t)
    \/ batch_begin(t)
    \/ batch_item(t)
    \/ batch_commit(t)
    \/ search_knn(t)
    \/ search_translate(t)
    \/ get_read(t)
    \/ writer_body(t)
    \/ unlock(t)

SpecThreads == Init /\ [][NextThreads]_vars


(***************************************************************************)
(* The public member functions that take no lock, and get_index, whose     *)
(* result the caller uses after the lock is gone.                          *)
(***************************************************************************)
\* the .hnsw.map contents save_mappings_unlocked writes when it has read n
\* from next_label_ and then reads the tables of s
MapFilesOf(s, n) ==
  {[count |-> n, rev |-> r, fwd |-> s.id_to_label_] :
     r \in {x \in [1 .. n -> UserIds \cup {Garbage}] :
              \A i \in 1 .. n : x[i] \in VecRead(s.label_to_id_, i - 1)}}

\* thread t calls save_mappings_unlocked or save_metadata_unlocked
begin_unlocked(t) ==
  /\ pc[t] = "idle"
  /\ \E name \in {"save_mappings_unlocked", "save_metadata_unlocked"} :
       /\ call' = [call EXCEPT ![t] = [NoCall EXCEPT !.name = name]]
       /\ Goto(t, IF name = "save_mappings_unlocked"
                  THEN "save_mappings_unlocked_count"
                  ELSE "save_metadata_unlocked_write")
  /\ UNCHANGED <<store, seq, mutex, inserted_as>>

\* save_mappings_unlocked: const uint64_t num_elements = next_label_
save_mappings_unlocked_count(t) ==
  /\ pc[t] = "save_mappings_unlocked_count"
  /\ call' = [call EXCEPT ![t].k = store.next_label_]
  /\ Goto(t, "save_mappings_unlocked_write")
  /\ UNCHANGED <<store, seq, mutex, inserted_as>>

\* save_mappings_unlocked: the writes of the two tables
save_mappings_unlocked_write(t) ==
  /\ pc[t] = "save_mappings_unlocked_write"
  /\ \E m \in MapFilesOf(store, call[t].k) : disk' = [disk EXCEPT !.map = File(m)]
  /\ call' = [call EXCEPT ![t] = NoCall]
  /\ Goto(t, "idle")
  /\ UNCHANGED <<store, saved, accepted, op, err, ret, mutex, inserted_as>>

\* save_metadata_unlocked
save_metadata_unlocked_write(t) ==
  /\ pc[t] = "save_metadata_unlocked_write"
  /\ disk' = [disk EXCEPT !.meta = File(MetaFile(store))]
  /\ call' = [call EXCEPT ![t] = NoCall]
  /\ Goto(t, "idle")
  /\ UNCHANGED <<store, saved, accepted, op, err, ret, mutex, inserted_as>>

\* std::shared_lock lock(store_mutex_) in get_index
lock_shared_get_index(t) ==
  /\ pc[t] = "lock_shared"
  /\ CanLockShared(mutex)
  /\ mutex' = [mutex EXCEPT !.readers = @ \cup {t}]
  /\ call' = [call EXCEPT ![t] = [NoCall EXCEPT !.name = "get_index"]]
  /\ Goto(t, "get_index_return")
  /\ UNCHANGED <<store, seq, inserted_as>>

\* get_index: return *index_ and the lock's destructor; the caller now
\* holds a reference to the index
get_index_return(t) ==
  /\ pc[t] = "get_index_return"
  /\ mutex' = [mutex EXCEPT !.readers = @ \ {t}]
  /\ Goto(t, "handle")
  /\ UNCHANGED <<store, seq, call, inserted_as>>

\* the caller is done with the reference
handle_drop(t) ==
  /\ pc[t] = "handle"
  /\ call' = [call EXCEPT ![t] = NoCall]
  /\ Goto(t, "idle")
  /\ UNCHANGED <<store, seq, mutex, inserted_as>>

(***************************************************************************)
(* SpecPublic: threads that call add_vector (user id 1), set_ef,           *)
(* get_index, save_mappings_unlocked and save_metadata_unlocked.           *)
(***************************************************************************)
lock_exclusive_public(t) == lock_exclusive(t, {"add_vector", "set_ef"}, {1}, {TRUE})

NextPublic ==
  \E t \in Threads :
    \/ begin_writer(t)
    \/ begin_reader(t)
    \/ begin_unlocked(t)
    \/ lock_exclusive_public(t)
    \/ lock_shared_get_index(t)
    \/ add_vector_insert(t)
    \/ add_vector_commit(t)
    \/ writer_body(t)
    \/ unlock(t)
    \/ save_mappings_unlocked_count(t)
    \/ save_mappings_unlocked_write(t)
    \/ save_metadata_unlocked_write(t)
    \/ get_index_return(t)
    \/ handle_drop(t)

SpecPublic == Init /\ [][NextPublic]_vars

(***************************************************************************)
(* SpecAdders: threads that call add_vector on a fresh store.              *)
(***************************************************************************)
lock_exclusive_adders(t) == lock_exclusive(t, {"add_vector"}, UserIds, {TRUE})

NextAdders ==
  \E t \in Threads :
    \/ begin_writer(t)
    \/ lock_exclusive_adders(t)
    \/ add_vector_insert(t)
    \/ add_vector_commit(t)
    \/ unlock(t)

SpecAdders == Init /\ [][NextAdders]_vars


(***************************************************************************)
(* SpecDisk: the artifacts one by one.  Vectors are accepted through       *)
(* add_vector and an unvalidated batch that repeats a user id; save_index  *)
(* writes the artifacts, files are removed from outside, and load_mappings *)
(* and the loading constructor read what is there.                         *)
(***************************************************************************)
\* std::remove of one artifact, as the tests do between runs
remove_file ==
  /\ Idle
  /\ \E f \in {"hnsw", "map", "meta"} :
       /\ disk[f] # NoFile
       /\ disk' = [disk EXCEPT ![f] = NoFile]
  /\ saved' = [saved EXCEPT !.whole = FALSE]
  /\ UNCHANGED <<store, accepted, op, err, ret, conc>>

\* load_mappings(index_path) on the live store
load_mappings_call(stale) ==
  LET r == IF disk.map = NoFile
           THEN [err |-> "PersistenceError", s |-> store]
           ELSE LoadMappings(store, Content(disk.map), stale)
  IN /\ store' = r.s
     /\ accepted' = IF r.err = "none" THEN r.s.next_label_ ELSE accepted
     /\ Call("load_mappings", r.err, <<>>)
     /\ UNCHANGED <<disk, saved>>

load_mappings ==
  /\ Idle
  /\ \E stale \in StalePairsFor(disk) : load_mappings_call(stale)

\* add_vector of a vector of the right length, no adapter failure
add_vector_one ==
  /\ Idle
  /\ \E user_id \in UserIds : add_vector_call(user_id, <<1>>, "none")

\* a batch of two items with the same user id
DuplicateBatch == << <<1, <<1>>>>, <<1, <<1>>>> >>

try_add_vector_batch_unvalidated ==
  /\ Idle
  /\ try_add_vector_batch_call(DuplicateBatch, FALSE, 0, "none")

NextDisk ==
  \/ add_vector_one
  \/ try_add_vector_batch_unvalidated
  \/ save_index
  \/ remove_file
  \/ load_mappings
  \/ load_constructor_same
  \/ returned

SpecDisk == Init /\ [][NextDisk]_vars


(***************************************************************************)
(* SpecMeta: stores of two dimensionalities are constructed, tuned with    *)
(* set_ef and cleaned; save_metadata writes the metadata of the live store *)
(* and load_index_metadata reads what is on disk into the live store.      *)
(***************************************************************************)
Dims == {Dim, Dim + 1}

\* VectorStore<SIM_POLICY>(index_path, dim, max_elements): a new live store
fresh_constructor ==
  /\ Idle
  /\ \E d \in Dims, c \in InitCaps : store' = NewStore(store.metric, d, c)
  /\ accepted' = 0
  /\ Call("VectorStore(index_path, dim, max_elements)", "none", <<>>)
  /\ UNCHANGED <<disk, saved>>

\* save_metadata(index_path)
save_metadata ==
  /\ Idle
  /\ disk' = [disk EXCEPT !.meta = File(MetaFile(store))]
  /\ saved' = [saved EXCEPT !.whole = FALSE]
  /\ Call("save_metadata", "none", <<>>)
  /\ UNCHANGED <<store, accepted>>

\* load_index_metadata(index_path) on the live store
load_index_metadata ==
  /\ Idle
  /\ IF disk.meta = NoFile
     THEN UNCHANGED store /\ Call("load_index_metadata", "PersistenceError", <<>>)
     ELSE /\ store' = LoadIndexMetadata(store, Content(disk.meta))
          /\ Call("load_index_metadata", "none", <<>>)
  /\ UNCHANGED <<disk, saved, accepted>>

NextMeta ==
  \/ fresh_constructor
  \/ set_ef
  \/ cleanMappings
  \/ save_metadata
  \/ load_index_metadata
  \/ returned

SpecMeta == Init /\ [][NextMeta]_vars

(***************************************************************************)
(* SpecMetric: a store is filled through add_vector and saved with         *)
(* save_index; the loading constructor of VectorStore<L2Sim> or of         *)
(* VectorStore<CosineSim> builds a store from what was written.            *)
(***************************************************************************)
\* VectorStore<SIM_POLICY>(index_path) for either policy
load_constructor_any ==
  /\ Idle
  /\ \E metric \in Metrics, stale \in StalePairsFor(disk) :
       load_constructor_call(metric, stale)

NextMetric ==
  \/ add_vector_one
  \/ save_index_first
  \/ load_constructor_any
  \/ returned

SpecMetric == Init /\ [][NextMetric]_vars

(***************************************************************************)
(* SpecMapping: a store is filled through add_vector and a validated       *)
(* batch; save_mappings writes the mapping (once in a behaviour; saved   *)
(* keeps the store as it was then), cleanMappings empties it and           *)
(* load_mappings reads it back.                                            *)
(***************************************************************************)
\* save_mappings(index_path)
save_mappings ==
  /\ Idle
  /\ \E m \in MapFiles(store) : disk' = [disk EXCEPT !.map = File(m)]
  /\ saved' = [s |-> File(store), whole |-> FALSE]
  /\ Call("save_mappings", "none", <<>>)
  /\ UNCHANGED <<store, accepted>>

\* the first save_mappings of a behaviour
save_mappings_first == saved.s = NoFile /\ save_mappings

\* a validated batch of two items with different user ids
PairBatch == << <<1, <<1>>>>, <<2, <<1>>>> >>

try_add_vector_batch_pair ==
  /\ Idle
  /\ try_add_vector_batch_call(PairBatch, TRUE, 0, "none")

NextMapping ==
  \/ add_vector_one
  \/ try_add_vector_batch_pair
  \/ save_mappings_first
  \/ cleanMappings
  \/ load_mappings
  \/ returned

SpecMapping == Init /\ [][NextMapping]_vars

(***************************************************************************)
(* SpecSave: save_index with files that cannot be opened or written.       *)
(***************************************************************************)
\* what can go wrong in one save_index: nothing; the .hnsw file cannot be
\* written and saveIndex throws, or returns without having written; the
\* .hnsw.map file cannot be opened; the .hnsw.map file is opened and its
\* writes fail
SaveFails == {"none", "index_throws", "index_silent", "map_open", "map_write"}

\* a file that was opened for writing and received no bytes; its count
\* reads as 0
EmptyMapFile == [count |-> 0, rev |-> <<>>, fwd |-> EmptyFn]

\* save_index on disk d: saveIndex, save_mappings_unlocked (which throws
\* only when the file is not open and checks no write),
\* save_metadata_unlocked; m is the mapping content written
SaveIndex(s, d, fail, m) ==
  IF fail = "index_throws" THEN [err |-> "PersistenceError", disk |-> d]
  ELSE LET d1 == IF fail = "index_silent" THEN d
                 ELSE [d EXCEPT !.hnsw = File(IndexSave(s.index_))]
       IN IF fail = "map_open" THEN [err |-> "PersistenceError", disk |-> d1]
          ELSE LET d2 == [d1 EXCEPT !.map = IF fail = "map_write"
                                             THEN File(EmptyMapFile) ELSE File(m)]
               IN [err |-> "none", disk |-> [d2 EXCEPT !.meta = File(MetaFile(s))]]

\* save_index(index_path); ret tells what went wrong
save_index_failing ==
  /\ Idle
  /\ \E fail \in SaveFails, m \in MapFiles(store) :
       LET r == SaveIndex(store, disk, fail, m)
       IN /\ disk' = r.disk
          /\ saved' = [s |-> File(store), whole |-> fail = "none"]
          /\ Call("save_index", r.err, <<fail>>)
  /\ UNCHANGED <<store, accepted>>

NextSave ==
  \/ add_vector_one
  \/ set_ef
  \/ save_index_failing
  \/ returned

SpecSave == Init /\ [][NextSave]_vars

(***************************************************************************)
(* SpecFair: threads that call add_vector, try_add_vector_batch,           *)
(* save_index, save_mappings, search_vectors and the getters, each thread  *)
(* running on once it has made a call.                                     *)
(***************************************************************************)
FairCalls == {"add_vector", "try_add_vector_batch", "save_index", "save_mappings",
              "search_vectors", "get"}

lock_exclusive_fair(t) == lock_exclusive(t, FairCalls, {1}, {TRUE})
lock_shared_fair(t) == lock_shared(t, FairCalls, {1}, {TRUE})

\* the constructor of the lock object
Acquire(t) == lock_exclusive_fair(t) \/ lock_shared_fair(t)

\* the statements of a member function after the lock is taken, up to the
\* destructor of the lock object
Body(t) ==
  \/ add_vector_insert(t)
  \/ add_vector_commit(t)
  \/ batch_begin(t)
  \/ batch_item(t)
  \/ batch_commit(t)
  \/ search_knn(t)
  \/ search_translate(t)
  \/ get_read(t)
  \/ writer_body(t)
  \/ unlock(t)

NextFair ==
  \E t \in Threads :
    \/ begin_writer(t)
    \/ begin_reader(t)
    \/ lock_exclusive_fair(t)
    \/ lock_shared_fair(t)
    \/ add_vector_insert(t)
    \/ add_vector_commit(t)
    \/ batch_begin(t)
    \/ batch_item(t)
    \/ batch_commit(t)
    \/ search_knn(t)
    \/ search_translate(t)
    \/ get_read(t)
    \/ writer_body(t)
    \/ unlock(t)

\* A thread inside a member function keeps running: the calls block on
\* nothing but store_mutex_.  When store_mutex_ can be taken, one of the
\* threads blocked on it takes it; std::shared_mutex does not say which, a
\* waiter can be overtaken any number of times.
SpecFair ==
  /\ Init /\ [][NextFair]_vars
  /\ \A t \in Threads : WF_vars(Body(t))
  /\ WF_vars(\E t \in Threads : Acquire(t))

(***************************************************************************)
(* Properties.                                                             *)
(***************************************************************************)
Fwd == store.id_to_label_
Rev == store.label_to_id_
NextLabel == store.next_label_
Count == IndexCount(store.index_)

\* reverse[label] == user_id: the reverse table has an entry for the label
\* and the entry is the user id
ReverseIs(s, label, user_id) ==
  label < Len(s.label_to_id_) /\ s.label_to_id_[label + 1] = user_id

\* C1: in every state reachable by the public operations, every
\* (user_id, label) pair of the forward map has label < next_label and
\* reverse[label] == user_id.
\* Violated: a batch that outgrows the reverse table binds a label that has
\* no entry in the table.
C1_ForwardPairsConsistent ==
  \A u \in DOMAIN Fwd : Fwd[u] < NextLabel /\ ReverseIs(store, Fwd[u], u)

\* C2: in every state a fresh store reaches by add_vector, validated
\* batches, set_ef and save_index, next_label equals the number of accepted
\* vectors, the size of the forward map and the index's element count.
C2_CountsAgree ==
  /\ NextLabel = accepted
  /\ NextLabel = Cardinality(DOMAIN Fwd)
  /\ NextLabel = Count

\* C2 witness: three vectors were accepted, the last ones by a batch, and
\* the index was saved
C2_Witness ==
  /\ accepted = 3
  /\ op = "try_add_vector_batch" /\ Len(ret) = 2
  /\ disk.hnsw # NoFile

\* C4: add_vector with a bound user id fails with an error (the duplicate
\* error when the vector has the right length) and leaves the whole store -
\* forward map, reverse table, next_label, capacity, index - as it was.
C4_DuplicateRejected ==
  Idle =>
    \A u \in DOMAIN Fwd, v \in Vectors, oomResize \in BOOLEAN, oomInsert \in BOOLEAN :
      LET r == AddVector(store, u, v, oomResize, oomInsert)
      IN /\ r.err # "none"
         /\ Len(v) = store.dim_ => r.err = "DuplicateIdentifier"
         /\ r.s = store

\* C4 witness: add_vector has just failed on a bound id
C4_Witness ==
  op = "add_vector" /\ err = "DuplicateIdentifier" /\ NextLabel >= 1

\* C5: a vector of the wrong length is rejected with the dimension error by
\* add_vector and by search_vectors, and the rejected call changes nothing,
\* also when the store is at capacity.
C5_DimensionEnforced ==
  Idle =>
    \A v \in Vectors :
      Len(v) # store.dim_ =>
        /\ \A u \in UserIds, oomResize \in BOOLEAN, oomInsert \in BOOLEAN :
             AddVector(store, u, v, oomResize, oomInsert)
               = [err |-> "DimensionMismatch", s |-> store]
        /\ \A k \in 1 .. MaxK :
             SearchVectors(store, v, k) = [err |-> "DimensionMismatch", labels |-> <<>>]

\* C5 witness: add_vector has just rejected a vector of the wrong length on
\* a store that is at capacity
C5_Witness ==
  /\ op = "add_vector" /\ err = "DimensionMismatch"
  /\ NextLabel >= 1 /\ NextLabel = store.max_elements_

\* C6: when the index's insert fails inside add_vector, the error reaches
\* the caller and the forward map, next_label and the reverse table's
\* entries for the labels below next_label are as before the call.
\* Violated (because of the batch overflow of C29): with next_label past the
\* end of the reverse table, the failed call's resize gives the overflowed
\* labels new, zeroed entries.
C6_FailedInsertKeepsMapping ==
  [][(op' = "add_vector" /\ err' = "InsertFailed") =>
       /\ store'.id_to_label_ = store.id_to_label_
       /\ store'.next_label_ = store.next_label_
       /\ \A l \in 0 .. (store.next_label_ - 1) :
            /\ l < Len(store.label_to_id_)
            /\ ReverseIs(store', l, store.label_to_id_[l + 1])]_vars

\* the ids try_add_vector_batch(batch, validate = true) is to return: in
\* input order, those of the items of the right length whose id is not
\* bound and is not the id of an earlier such item
RECURSIVE ValidatedIds(_, _, _)
ValidatedIds(s, batch, seen) ==
  IF batch = <<>> THEN <<>>
  ELSE LET u == Head(batch)[1]
           v == Head(batch)[2]
       IN IF Len(v) = s.dim_ /\ ~Bound(s, u) /\ u \notin seen
          THEN <<u>> \o ValidatedIds(s, Tail(batch), seen \cup {u})
          ELSE ValidatedIds(s, Tail(batch), seen)

C8_SearchTranslatesLabels ==
  Idle =>
    \A q \in GoodVectors, k \in 1 .. MaxK :
      LET r == SearchVectors(store, q, k)
          labels == IndexKnn(store.index_, store.metric, q, store.dim_, k)
      IN /\ r.err = "none"
         /\ \A ids \in Translations(store, r.labels) :
              /\ Len(ids) = Min(k, Count)
              /\ \A i \in 1 .. Len(ids) : ReverseIs(store, labels[i], ids[i])


\* the lists of user ids search_vectors(q, k) can return on store s
SearchResults(s, q, k) == Translations(s, SearchVectors(s, q, k).labels)

\* C3: a store that holds N >= 1 vectors accepted through add_vector and
\* validated batches is saved with save_index and built anew by the loading
\* constructor: the new store has the element count, the next_label and
\* the (user_id -> label) pairs of the store that was saved, and every
\* query returns on it the list of user ids it returned before the save.
\* Violated: the constructor never hands the saved ef to the index (C16),
\* which searches with hnswlib's default until set_ef is called again.
C3_RoundTrip ==
  [][(op' = "VectorStore(index_path)" /\ err' = "none"
        /\ saved.s # NoFile /\ Content(saved.s).next_label_ >= 1) =>
       LET old == Content(saved.s)
       IN /\ IndexCount(store'.index_) = IndexCount(old.index_)
          /\ store'.next_label_ = old.next_label_
          /\ store'.id_to_label_ = old.id_to_label_
          /\ \A q \in GoodVectors, k \in 1 .. MaxK :
               \A a \in SearchResults(old, q, k), b \in SearchResults(store', q, k) :
                 a = b]_vars


\* thread t is inside the critical section of a search
InSearch(t) == pc[t] \in {"search_knn", "search_translate"}

\* C9: with add_vector, try_add_vector_batch and search_vectors running in
\* concurrent threads, whenever a search is inside its critical section
\* every label of the index has its committed mapping entry: the label is
\* below next_label and reverse[label] is the user id it was inserted under.
\* Violated (because of the batch overflow of C29): the label a batch
\* commits past the end of the reverse table has no entry there.
C9_SearchSeesCommittedLabels ==
  \A t \in Threads :
    InSearch(t) =>
      \A l \in DOMAIN store.index_.nodes :
        /\ l < NextLabel
        /\ l \in DOMAIN inserted_as
        /\ ReverseIs(store, l, inserted_as[l])

\* thread t is inside the critical section of a call that takes the lock
\* exclusively (shared)
InWriter(t) ==
  pc[t] \in {"add_vector_insert", "add_vector_commit", "batch_begin", "batch_item",
             "batch_commit", "writer_body"}
    \/ (pc[t] = "unlock" /\ call[t].name \in Writers)

InReader(t) ==
  pc[t] \in {"search_knn", "search_translate", "get_read"}
    \/ (pc[t] = "unlock" /\ call[t].name \in Readers)

ReadersTogether ==
  \E t \in Threads, other \in Threads :
    t # other /\ pc[t] = "search_translate" /\ pc[other] = "get_read"


\* C11: concurrent add_vector calls with distinct unbound ids never obtain
\* the same label.  Whenever no thread is between its insert and its commit,
\* the labels the calls have inserted under are 0 .. next_label - 1, one per
\* successful call (so two calls raise next_label by exactly 2 and get
\* consecutive labels), each is bound to the id of its call and to no other
\* id, and the index holds one node per label.
C11_DistinctConsecutiveLabels ==
  (\A t \in Threads : pc[t] # "add_vector_commit") =>
    /\ DOMAIN inserted_as = 0 .. (NextLabel - 1)
    /\ DOMAIN store.index_.nodes = 0 .. (NextLabel - 1)
    /\ DOMAIN Fwd = {inserted_as[l] : l \in DOMAIN inserted_as}
    /\ \A l \in DOMAIN inserted_as : Fwd[inserted_as[l]] = l
    /\ \A u \in DOMAIN Fwd, w \in DOMAIN Fwd : u # w => Fwd[u] # Fwd[w]

\* C11 witness: a thread has committed the second label while the other
\* thread's call waits at the lock
C11_Witness ==
  \E t \in Threads, other \in Threads :
    /\ pc[t] = "unlock" /\ call[t].name = "add_vector"
    /\ pc[other] = "lock_exclusive"
    /\ NextLabel = 2 /\ Cardinality(DOMAIN Fwd) = 2


\* thread t holds store_mutex_
HoldsLock(t) == mutex.writer = t \/ t \in mutex.readers

\* thread t is at a statement of a member function that reads or writes
\* the index, the mapping tables or the configuration
Accessing(t) ==
  \/ InWriter(t) /\ pc[t] # "unlock"
  \/ InReader(t) /\ pc[t] # "unlock"
  \/ pc[t] \in {"save_mappings_unlocked_count", "save_mappings_unlocked_write",
                "save_metadata_unlocked_write", "get_index_return"}

\* C12: every public member function reads or writes the store only while
\* it holds store_mutex_, so no public call is at such a statement while
\* another thread is inside a writer's critical section.
\* Violated: save_mappings_unlocked and save_metadata_unlocked are public
\* and take no lock.
C12_PublicCallsHoldLock ==
  \A t \in Threads :
    Accessing(t) =>
      /\ HoldsLock(t)
      /\ \A other \in Threads \ {t} : ~InWriter(other)

\* a writer is changing the graph: an insert (with its capacity growth) or
\* set_ef
MutatingGraph(t) ==
  \/ pc[t] \in {"add_vector_insert", "batch_item"}
  \/ pc[t] = "writer_body" /\ call[t].name = "set_ef"

\* C13: no thread holds a handle on the graph, obtained from the store,
\* while a writer is mutating the graph.
\* Violated: get_index returns a reference to the index and releases the
\* lock; the reference lives on in the caller.
C13_NoHandleOutlivesLock ==
  \A t \in Threads :
    pc[t] = "handle" => \A other \in Threads \ {t} : ~MutatingGraph(other)

\* C14: for every initial capacity the constructor accepts, add_vector of
\* an unbound id with a vector of the right length on a store whose
\* next_label has reached the capacity grows the capacity and succeeds, and
\* fails only when the index's resize fails.
\* Violated: a store constructed with max_elements = 0 doubles 0 to 0, the
\* resize succeeds without growing anything and addPoint then fails.
C14_FullStoreGrowsAndAccepts ==
  Idle =>
    \A u \in UserIds, v \in GoodVectors :
      (~Bound(store, u) /\ store.next_label_ >= store.max_elements_) =>
        /\ LET r == AddVector(store, u, v, FALSE, FALSE)
           IN /\ r.err = "none"
              /\ r.s.max_elements_ > store.max_elements_
        /\ AddVector(store, u, v, TRUE, FALSE).err = "ResizeFailed"

\* what get_dim, get_max_elements, get_M, get_ef_construction, get_ef and
\* get_allow_replace_deleted return on store s
Configuration(s) ==
  <<s.dim_, s.max_elements_, s.M_, s.ef_construction_, s.ef_, s.allow_replace_deleted_>>

\* C15: a store saved with save_index after any inserts (capacity growth
\* included) and set_ef calls, and built anew by the loading constructor,
\* has the dim, max_elements, M, ef_construction, ef and
\* allow_replace_deleted of the store that was saved.
C15_ConfigurationRoundTrip ==
  [][(op' = "VectorStore(index_path)" /\ err' = "none" /\ saved.s # NoFile) =>
       Configuration(store') = Configuration(Content(saved.s))]_vars

\* C15 witness: the constructor has just rebuilt a store that was saved
\* with a grown capacity and an ef other than the default
C15_Witness ==
  /\ op = "VectorStore(index_path)" /\ err = "none" /\ saved.s # NoFile
  /\ Content(saved.s).ef_ # DefaultEf
  /\ Content(saved.s).max_elements_ > MaxInitCap
  /\ store.max_elements_ = Content(saved.s).max_elements_

\* C16: in every reachable state - after construction, after set_ef, after
\* a reload of a store on which set_ef had been called - the ef the index
\* searches with is the value get_ef returns.
\* Violated: the loading constructor restores ef_ from the metadata and
\* never calls setEf, and loadIndex leaves the index with its default ef.
C16_IndexEfIsGetEf == store.index_.ef = store.ef_

\* C17: the loading constructor raises an error whenever one of
\* .hnsw.meta, .hnsw and .hnsw.map is missing, whichever it is, and no
\* store results from it.
C17_MissingArtifactFailsLoad ==
  [][(op' = "VectorStore(index_path)"
        /\ (disk.meta = NoFile \/ disk.hnsw = NoFile \/ disk.map = NoFile)) =>
       (err' = "PersistenceError" /\ store' = store)]_vars

\* C17 witness: the constructor has just failed at the mapping file, the
\* one missing artifact
C17_Witness ==
  /\ op = "VectorStore(index_path)" /\ err = "PersistenceError" /\ ret = <<"map">>
  /\ disk.meta # NoFile /\ disk.hnsw # NoFile /\ disk.map = NoFile

\* C18: load_mappings on a .hnsw.map whose count is zero raises an error
\* and leaves the forward map, the reverse table and next_label as they
\* were; so the loading constructor fails on what save_index wrote for a
\* store without vectors.
C18_EmptyMappingRejected ==
  [][/\ (op' = "load_mappings" /\ disk.map # NoFile /\ Content(disk.map).count = 0) =>
          (err' = "PersistenceError" /\ store' = store)
     /\ (op' = "VectorStore(index_path)" /\ saved.whole
           /\ Content(saved.s).next_label_ = 0) =>
          (err' = "PersistenceError" /\ store' = store)]_vars

\* C18 witness: load_mappings has just rejected a file with count zero on
\* a store that holds vectors
C18_Witness ==
  /\ op = "load_mappings" /\ err = "PersistenceError"
  /\ disk.map # NoFile /\ Content(disk.map).count = 0
  /\ NextLabel >= 1 /\ Cardinality(DOMAIN Fwd) >= 1

\* C19: load_mappings on a .hnsw.map that holds fewer forward pairs than
\* its count declares raises an error and leaves the mapping of the store
\* as it was.
\* Violated: no read is checked; the call returns normally with the
\* reverse table and next_label of the file and a forward map made of the
\* pairs that were there and of whatever the failed reads left in the
\* locals.
C19_ShortMappingRejected ==
  [][(op' = "load_mappings" /\ disk.map # NoFile
        /\ Cardinality(DOMAIN Content(disk.map).fwd) < Content(disk.map).count) =>
       (err' = "PersistenceError" /\ store' = store)]_vars

\* C20: try_add_vector_batch with an empty batch returns an empty list,
\* raises nothing and changes nothing: the mapping, the length of the
\* reverse table, next_label, the capacity and the index are as before.
C20_EmptyBatchIsNoOp ==
  Idle =>
    \A validate \in BOOLEAN :
      TryAddVectorBatch(store, <<>>, validate, 0, "none")
        = [s |-> store, ret |-> <<>>, threw |-> FALSE]

\* C20 witness: an empty batch has just returned on a store whose reverse
\* table is empty (any other batch would have grown it) and whose index
\* holds vectors
C20_Witness ==
  /\ op = "try_add_vector_batch" /\ err = "none" /\ ret = <<>>
  /\ Len(store.label_to_id_) = 0
  /\ IndexCount(store.index_) >= 1

\* thread t is at the head of the batch loop with an item to process (the
\* thread holds the lock: a step that changes its call or the store is its
\* own)
AtItem(t) == pc[t] = "batch_item" /\ call[t].i <= Len(call[t].batch)

\* the validation of the loop rejects thread t's current item
ItemRejected(t) ==
  LET item == call[t].batch[call[t].i]
  IN call[t].validate /\ (Bound(store, item[1]) \/ Len(item[2]) # store.dim_)

\* C21: in try_add_vector_batch an iteration whose item passed the
\* validation and whose resize did not fail but whose addPoint threw skips
\* that item only: the forward map, next_label and the list of added ids
\* are as before the item and the loop goes on with the next item; an item
\* that is inserted is committed under the label next_label has then.
C21_FailedInsertSkipsItem ==
  [][\A t \in Threads :
       /\ (AtItem(t) /\ ~ItemRejected(t) /\ pc'[t] = "batch_item"
             /\ (call'[t] # call[t] \/ store' # store)) =>
            /\ Fwd' = Fwd
            /\ NextLabel' = NextLabel
            /\ call'[t].added = call[t].added
            /\ call'[t].i = call[t].i + 1
       /\ (pc[t] = "batch_commit" /\ pc'[t] # "batch_commit") =>
            /\ Fwd'[call[t].batch[call[t].i][1]] = NextLabel
            /\ NextLabel' = NextLabel + 1]_vars

\* C21 witness: an unvalidated batch of two items is at its end; the first
\* item's insert failed and the second item has label 0
C21_Witness ==
  \E t \in Threads :
    /\ pc[t] = "unlock" /\ call[t].name = "try_add_vector_batch"
    /\ ~call[t].validate /\ call[t].i = 3
    /\ call[t].batch[1][1] = 0 /\ call[t].added = <<1>>
    /\ NextLabel = 1 /\ 1 \in DOMAIN Fwd /\ Fwd[1] = 0

\* C22: when the resize of the capacity doubling fails at an item of
\* try_add_vector_batch, the loop stops there: that item and the later ones
\* are not processed, the call returns the ids committed so far without
\* raising, and the store - its capacity with it - is as before the item.
C22_FailedGrowthStopsBatch ==
  [][\A t \in Threads :
       (AtItem(t) /\ pc'[t] = "unlock") =>
         /\ store' = store
         /\ call'[t] = call[t]
         /\ store.next_label_ >= store.max_elements_]_vars

\* C22 witness: the resize failed at the second item of a batch whose first
\* item was committed; the call is about to return the first item's id
C22_Witness ==
  \E t \in Threads :
    /\ pc[t] = "unlock" /\ call[t].name = "try_add_vector_batch"
    /\ call[t].i = 2 /\ Len(call[t].batch) = 2
    /\ call[t].added = <<call[t].batch[1][1]>>
    /\ NextLabel = 1 /\ store.max_elements_ = 1

C24_CleanMappingsFrame ==
  [][op' = "cleanMappings" =>
       /\ Fwd' = EmptyFn
       /\ Rev' = <<>>
       /\ NextLabel' = 0
       /\ store'.index_ = store.index_
       /\ Configuration(store') = Configuration(store)]_vars

\* C24 witness: cleanMappings has just run on a store that holds two
\* vectors and has a tuned ef
C24_Witness ==
  /\ op = "cleanMappings" /\ NextLabel = 0
  /\ IndexCount(store.index_) >= 2 /\ store.ef_ # DefaultEf

\* the constructors: the calls that fix the dimensionality of a store
Constructors ==
  {"VectorStore(index_path, dim, max_elements)", "VectorStore(index_path)"}

\* C25: the dimensionality of a live store never changes: no public
\* operation other than the construction of the store changes what get_dim
\* returns.
\* Violated: load_index_metadata is public and overwrites dim_ (and the
\* other configuration members) of the live store with what the file holds.
C25_DimImmutable ==
  [][op' \notin Constructors => store'.dim_ = store.dim_]_vars

\* C26: the metric of a store is part of what save_index writes, so that
\* the loading constructor builds a store of the metric the saved store
\* had.
\* Violated: the metadata holds no metric (neither do the other two
\* artifacts); the metric of the loaded store is the template argument of
\* the constructor that was called.
C26_MetricRoundTrip ==
  [][(op' = "VectorStore(index_path)" /\ err' = "none" /\ saved.s # NoFile) =>
       store'.metric = Content(saved.s).metric]_vars

C28_UnvalidatedDuplicateRebinds ==
  \A t \in Threads :
    (AtItem(t) /\ ~call[t].validate /\ Bound(store, call[t].batch[call[t].i][1])) =>
      LET item == call[t].batch[call[t].i]
          u == item[1]
          L == Fwd[u]
          st == BatchItem([s |-> store, added |-> call[t].added,
                           stopped |-> FALSE, threw |-> FALSE],
                          item, FALSE, FALSE, FALSE)
      IN /\ st.s.id_to_label_[u] = NextLabel
         /\ ReverseIs(st.s, NextLabel, u)
         /\ ReverseIs(store, L, u) => ReverseIs(st.s, L, u)
         /\ L \in DOMAIN st.s.index_.nodes
         /\ st.s.index_.nodes[L] = store.index_.nodes[L]
         /\ st.added = Append(call[t].added, u)
         /\ st.s.next_label_ = NextLabel + 1
         /\ IndexCount(st.s.index_) = Count + 1

\* thread t is at a commit of the mapping: it is about to write
\* label_to_id_[next_label_]
AtCommit(t) == pc[t] \in {"add_vector_commit", "batch_commit"}

\* C29: when the loop of try_add_vector_batch starts on a non-empty batch
\* the reverse table holds at least next_label + batch.size entries, and
\* every commit of add_vector and of the batch loop writes
\* reverse[next_label] inside the table.
\* Violated: the table is grown only when next_label >= its length; a
\* batch that starts below the length and ends above it is not provided
\* for.
C29_CommitInsideTable ==
  \A t \in Threads :
    /\ (AtItem(t) /\ call[t].i = 1) => Len(Rev) >= NextLabel + Len(call[t].batch)
    /\ AtCommit(t) => NextLabel < Len(Rev)

\* C30: after any sequence of public operations every label the index
\* returns inside search_vectors is below next_label and below the length
\* of the reverse table.
\* Violated: cleanMappings empties the table and resets next_label while
\* the index keeps its nodes; a search then gets labels that have no entry.
C30_ReturnedLabelsHaveEntries ==
  Idle =>
    \A q \in GoodVectors, k \in 1 .. MaxK :
      LET labels == SearchVectors(store, q, k).labels
      IN \A i \in 1 .. Len(labels) :
           labels[i] < NextLabel /\ labels[i] < Len(Rev)

\* C31: across any sequence of public operations the labels handed to the
\* index's insert are 0, 1, 2, ... without gaps and none is handed to it
\* twice: the index holds exactly the labels below next_label, so the next
\* insert's label is not in the index.
\* Violated: cleanMappings sets next_label back to 0 and leaves the index's
\* nodes; the inserts that follow hand labels 0, 1, ... to addPoint again,
\* which replaces the vectors stored under them.
C31_LabelsNeverReused ==
  Idle => DOMAIN store.index_.nodes = 0 .. (NextLabel - 1)

\* the stored capacity is the capacity of the index and next_label has not
\* passed it
CapacityInStep == store.max_elements_ = store.index_.cap /\ NextLabel <= store.max_elements_

\* a call changes the stored capacity by doubling only, once for each time
\* next_label had reached it
CapacityDoubles ==
  (op' \notin Constructors /\ store'.max_elements_ # store.max_elements_) =>
    \/ /\ store'.max_elements_ = 2 * store.max_elements_
       /\ NextLabel' >= store.max_elements_
    \/ /\ store'.max_elements_ = 4 * store.max_elements_
       /\ NextLabel' >= 2 * store.max_elements_

\* C32: in every state reached by construction (fresh or from disk),
\* add_vector, try_add_vector_batch, set_ef and save_index, get_max_elements
\* is the capacity of the index and next_label <= it; the capacity changes
\* by doubling only, and only when next_label has reached it.
C32_CapacityTracksIndex == [](CapacityInStep) /\ [][CapacityDoubles]_vars

\* C32 witness: a store that has doubled its capacity twice and has been
\* saved and loaded again
C32_Witness ==
  /\ op = "VectorStore(index_path)" /\ err = "none"
  /\ store.max_elements_ = 4 /\ NextLabel = 3

\* C33: in a validated batch an item that the validation skips (bound id or
\* wrong length) causes no call into the index, neither addPoint nor
\* resizeIndex, and leaves the capacity, the mapping and next_label as they
\* were, also when next_label equals the capacity.
\* Violated: the capacity growth stands before the validation in the loop;
\* an item that is then skipped has already doubled the capacity.
C33_SkippedItemTouchesNothing ==
  [][\A t \in Threads :
       (AtItem(t) /\ ItemRejected(t) /\ (call'[t] # call[t] \/ store' # store)) =>
         store' = store]_vars

\* C34: save_index writes the index, then the mapping, then the metadata;
\* a call in which writing the index or the mapping fails does not write
\* the metadata file.
\* Violated: save_mappings_unlocked throws only when the file cannot be
\* opened; failed writes go unnoticed and the metadata is written after
\* them (and likewise after a saveIndex that returns without having
\* written).
C34_FailedSaveWritesNoMetadata ==
  [][(op' = "save_index" /\ ret' # <<"none">>) => disk'.meta = disk.meta]_vars

\* C35: the loading constructor reads the metadata first, builds the index
\* with the loaded capacity and graph parameters, then loads the graph,
\* then the mapping; it stops with an error at the first step that fails,
\* so the step it reports is the earliest artifact that is missing, and a
\* store results only when all three steps succeeded.
C35_LoadOrder ==
  [][op' = "VectorStore(index_path)" =>
       /\ disk.meta = NoFile => (err' = "PersistenceError" /\ ret' = <<"meta">>)
       /\ (disk.meta # NoFile /\ disk.hnsw = NoFile) =>
            (err' = "PersistenceError" /\ ret' = <<"index">>)
       /\ (disk.meta # NoFile /\ disk.hnsw # NoFile /\ disk.map = NoFile) =>
            (err' = "PersistenceError" /\ ret' = <<"map">>)
       /\ err' # "none" => store' = store
       /\ err' = "none" =>
            /\ disk.meta # NoFile /\ disk.hnsw # NoFile /\ disk.map # NoFile
            /\ ret' = <<"done">>
            /\ store'.max_elements_ = Content(disk.meta).max_elements[1]
            /\ store'.index_.M = Content(disk.meta).M[1]
            /\ store'.index_.efc = Content(disk.meta).ef_construction[1]
            /\ store'.index_.cap >= store'.max_elements_
            /\ store'.index_.nodes = Content(disk.hnsw).nodes
            /\ store'.next_label_ = Content(disk.map).count]_vars

\* C35 witness: with the metadata and the mapping both missing the
\* constructor has failed at the metadata, the first step
C35_Witness ==
  /\ op = "VectorStore(index_path)" /\ err = "PersistenceError" /\ ret = <<"meta">>
  /\ disk.meta = NoFile /\ disk.map = NoFile /\ disk.hnsw # NoFile

\* C36: after every successful load next_label equals the element count of
\* the loaded index; a .hnsw.map whose count differs from the element
\* count of the .hnsw beside it makes the loading constructor fail.
\* Violated: neither the constructor nor load_mappings compares the count
\* with the index; next_label is set to whatever count the file declares.
C36_CountValidatedAgainstIndex ==
  [][op' = "VectorStore(index_path)" =>
       /\ err' = "none" => store'.next_label_ = IndexCount(store'.index_)
       /\ (disk.meta # NoFile /\ disk.hnsw # NoFile /\ disk.map # NoFile
             /\ Content(disk.map).count # Cardinality(DOMAIN Content(disk.hnsw).nodes)) =>
            err' = "PersistenceError"]_vars

\* C37: the .hnsw.map file a save writes holds count = next_label, then
\* exactly count reverse-table entries, then exactly count forward pairs,
\* the amount load_mappings reads back; also after unvalidated batches.
\* Violated: one pair is written per entry of the forward map, and after
\* an unvalidated batch with a repeated user id the forward map has fewer
\* entries than next_label; load_mappings still reads count pairs.
C37_MapFileHoldsCountPairs ==
  (op = "save_index" /\ err = "none") =>
    LET m == Content(disk.map)
    IN /\ m.count = NextLabel
       /\ Cardinality(DOMAIN m.rev) = m.count
       /\ Cardinality(DOMAIN m.fwd) = m.count

\* C38: once the store has accepted at least one vector,
\* get_current_resized_label_vec_size() is the allocated length of the
\* reverse table, and that is the reserved size the metadata holds.
\* Violated: current_resized_label_vec_size_ is set by the constructors
\* only; no growth of the reverse table updates it.
C38_ReservedSizeIsTableLength ==
  (Idle /\ accepted >= 1) =>
    /\ store.current_resized_label_vec_size_ = Len(store.label_to_id_)
    /\ MetaFile(store).reserved = Len(store.label_to_id_)

\* a call never asks for the lock while it holds it and holds it no longer
\* once it has returned or thrown
NotReentrant ==
  \A t \in Threads :
    pc[t] \in {"idle", "lock_exclusive", "lock_shared"} => ~HoldsLock(t)

\* the threads that are inside a call are not all unable to move
SomeCallCanMove ==
  (\E t \in Threads : pc[t] # "idle") =>
    \E t \in Threads : pc[t] # "idle" /\ ENABLED (Body(t) \/ Acquire(t))

C40_MetaFieldsAreTheValues ==
  (op = "save_index" /\ err = "none") =>
    LET m == Content(disk.meta)
    IN /\ m.dim[1] = store.dim_ /\ m.dim[2] = 0
       /\ m.max_elements[1] = store.max_elements_ /\ m.max_elements[2] = 0
       /\ m.M[1] = store.M_ /\ m.M[2] = 0
       /\ m.ef_construction[1] = store.ef_construction_ /\ m.ef_construction[2] = 0
       /\ m.ef[1] = store.ef_ /\ m.ef[2][1] # "allow_replace_deleted_"
       /\ m.allow_replace_deleted = store.allow_replace_deleted_
       /\ m.reserved = store.current_resized_label_vec_size_

====
